---- MODULE Spec2Model ----
(***************************************************************************)
(* The user-management frontend of ghagent-showcase:                       *)
(*   - utils/sanitize.ts      isValidEmail, isNotEmpty                     *)
(*   - services/api.ts        ApiError, handleResponse, userService        *)
(*   - components/UserForm    name/email/errors, validate, handleSubmit    *)
(*   - components/UserList    which rows are rendered                      *)
(*   - pages/Users.tsx        users/loading/error/selectedUser and the     *)
(*                            handlers that change them                    *)
(* and, each under a specification of its own, the application root (App)  *)
(* with its error boundary, the backend's ServerInfoController, and the     *)
(* User Store as the specification describes it.                           *)
(* Strings the code inspects character by character (the form fields) are  *)
(* sequences of one-character strings; messages the code only concatenates *)
(* are TLA+ strings.  A value of type T | null is <<>> (null) or <<v>>.    *)
(* An async handler is two steps: the part before its await, which reads   *)
(* the state variables of the render it was created in, and the part after *)
(* it, which still sees those values (they are consts of that render).     *)
(***************************************************************************)
EXTENDS Integers, Sequences, FiniteSets, TLC

VARIABLES
    users,          \* Users.tsx:9   User[]
    loading,        \* Users.tsx:10  boolean
    error,          \* Users.tsx:11  string | null
    selectedUser,   \* Users.tsx:12  User | null
    name,           \* UserForm.tsx:13 the name field
    email,          \* UserForm.tsx:14 the email field
    errors,         \* UserForm.tsx:15 {name?, email?}; "" is an absent key
    mounted,        \* whether the mount effect (Users.tsx:14-16) has run
    inflight,       \* userService calls awaiting their fetch, with the closure of the caller
    nreq,           \* number of HTTP requests issued so far
    last            \* the step taken last: handler, request, fetch outcome, service result

VARIABLES
    root,           \* the App component that is the application root
    shown,          \* what the application root displays: the app, a fallback, or nothing
    host,           \* what the Dns lookups of the server give (ServerInfoController.cs:25-26)
    ipDto,          \* the ServerIpDto GetServerIp returned, or null before the call
    store,          \* the User Store: the users held, in insertion order
    nextId,         \* the User Store: the id the next create assigns
    holder,         \* the User Store: the create requests it has received and not answered
    issued,         \* the ids create has returned so far, in order
    reply           \* the User Store: what it did last, with its answer

VARIABLES
    wire,           \* the responses the server has sent, each with the id of its request
    input,          \* the string handed to the validators of utils/sanitize.ts
    verdict         \* what isValidEmail and isNotEmpty returned for it, or null

pageVars == <<users, loading, error, selectedUser, name, email, errors,
              mounted, inflight, nreq, last>>
serverVars == <<host, ipDto>>
storeVars == <<store, nextId, holder, issued, reply>>

appVars == <<root, shown>>
checkVars == <<input, verdict>>

vars == <<pageVars, appVars, serverVars, storeVars, wire, checkVars>>

viewVars == <<users, loading, error, selectedUser>>
formVars == <<name, email, errors>>

----------------------------------------------------------------------------
(* Bounds of the model *)

\* HTTP requests issued in one behaviour
MaxRequests == 3
\* the ids of users are 1..MaxId
MaxId == 4
\* the server lists the users 1..n for an n up to MaxListed at the mount-time
\* load, and gives the users it creates later the ids above MaxListed
MaxListed == 2

----------------------------------------------------------------------------
(* Values *)

null == <<>>

Whitespace == {" "}

User(i, n, e) == [id |-> i, name |-> n, email |-> e]

NoDto == [name |-> <<>>, email |-> <<>>]

AdaName  == <<"a">>
AdaEmail == <<"a", "@", "a", ".", "a">>

\* what the name field can be set to
NameInputs == { <<>>, <<" ">>, <<"a">>, <<" ", "a", " ">> }

\* what the email field can be set to
EmailInputs == { <<>>, <<" ">>, AdaEmail, <<"a", "@", "a">>,
                 <<" ", "a", "@", "a", ".", "a">> }

----------------------------------------------------------------------------
(* utils/sanitize.ts *)

RECURSIVE trimStart(_)
trimStart(s) ==
    IF s = <<>> THEN s
    ELSE IF Head(s) \in Whitespace THEN trimStart(Tail(s)) ELSE s

RECURSIVE trimEnd(_)
trimEnd(s) ==
    IF s = <<>> THEN s
    ELSE IF s[Len(s)] \in Whitespace THEN trimEnd(SubSeq(s, 1, Len(s) - 1)) ELSE s

\* String.prototype.trim
trim(s) == trimEnd(trimStart(s))

\* the character class [^\s@]
NotSpaceNorAt(c) == c \notin Whitespace /\ c # "@"

\* one or more characters of [^\s@] at positions a..b
Run(s, a, b) == a <= b /\ \A k \in a..b : NotSpaceNorAt(s[k])

\* variant: the pattern asks for no dot after the "@"
isValidEmail_noDot(s) ==
    \E i \in 1..Len(s) :
        /\ s[i] = "@"
        /\ Run(s, 1, i - 1)
        /\ Run(s, i + 1, Len(s))

\* /^[^\s@]+@[^\s@]+\.[^\s@]+$/.test(email)
isValidEmail(s) ==
    \E i \in 1..Len(s) : \E j \in 1..Len(s) :
        /\ s[i] = "@"
        /\ s[j] = "."
        /\ Run(s, 1, i - 1)
        /\ Run(s, i + 1, j - 1)
        /\ Run(s, j + 1, Len(s))

\* value.trim().length > 0
isNotEmpty(value) == Len(trim(value)) > 0

----------------------------------------------------------------------------
(* services/api.ts *)

\* What a fetch() settles to: a rejection (the network is unreachable) or a
\* Response.  text is what response.text() yields; jsonOk tells whether
\* response.json() parses, and data is what it yields then: the list for
\* getUsers, the one user for getUserById, createUser and updateUser.
Rejected == [kind |-> "reject", status |-> 0, statusText |-> "", text |-> "",
             jsonOk |-> FALSE, data |-> <<>>]

Response(st, stText, txt, jok, d) ==
    [kind |-> "response", status |-> st, statusText |-> stText, text |-> txt,
     jsonOk |-> jok, data |-> d]

NoFetch == [kind |-> "none", status |-> 0, statusText |-> "", text |-> "",
            jsonOk |-> FALSE, data |-> <<>>]

\* Response.ok of the fetch standard: the status is in the range 200-299
ok(response) == response.status >= 200 /\ response.status <= 299

\* What a userService call settles to: a value, an ApiError, or any other
\* exception (fetch's TypeError, json()'s SyntaxError).
Resolved(d) == [kind |-> "ok", status |-> 0, message |-> "", data |-> d]

ApiError(st, msg) == [kind |-> "ApiError", status |-> st, message |-> msg, data |-> <<>>]

OtherError == [kind |-> "other", status |-> 0, message |-> "", data |-> <<>>]

NoResult == [kind |-> "none", status |-> 0, message |-> "", data |-> <<>>]

\* variant: the status text is never used
errorMessage_bodyOnly(response) == response.text

\* errorText || response.statusText
errorMessage(response) ==
    IF response.text # "" THEN response.text ELSE response.statusText

handleResponse(response) ==
    IF ~ok(response)
    THEN ApiError(response.status, errorMessage(response))
    ELSE IF response.jsonOk THEN Resolved(response.data) ELSE OtherError

getUsers(fetched) ==
    IF fetched.kind = "reject" THEN OtherError ELSE handleResponse(fetched)

getUserById(fetched) ==
    IF fetched.kind = "reject" THEN OtherError ELSE handleResponse(fetched)

createUser(fetched) ==
    IF fetched.kind = "reject" THEN OtherError ELSE handleResponse(fetched)

updateUser(fetched) ==
    IF fetched.kind = "reject" THEN OtherError ELSE handleResponse(fetched)

\* deleteUser does not read the body of a successful response
deleteUser(fetched) ==
    IF fetched.kind = "reject" THEN OtherError
    ELSE IF ~ok(fetched)
         THEN ApiError(fetched.status, errorMessage(fetched))
         ELSE Resolved(<<>>)

\* the result of the operation op of userService, given what its fetch settled to
userService(op, fetched) ==
    CASE op = "getUsers"    -> getUsers(fetched)
      [] op = "getUserById" -> getUserById(fetched)
      [] op = "createUser"  -> createUser(fetched)
      [] op = "updateUser"  -> updateUser(fetched)
      [] op = "deleteUser"  -> deleteUser(fetched)

\* A call in flight: the operation and its arguments, and the state variables
\* the calling handler closed over (users, selectedUser of its render).
\* errSince and removedSince are history: whether a handler set `error` to a
\* message, and which ids delete responses removed, since the call started.
Request(n, o, i, d, us, sel) ==
    [rid |-> n, op |-> o, id |-> i, dto |-> d, users |-> us, selectedUser |-> sel,
     errSince |-> FALSE, removedSince |-> {}]

NoRequest == Request(0, "none", 0, NoDto, <<>>, null)

\* the record of the step taken last
Event(e, r, fetched, res) ==
    [ev |-> e, rid |-> r.rid, op |-> r.op, id |-> r.id, fetched |-> fetched, res |-> res]

\* App of src/unnamed/part_001:
\* <ErrorBoundary><div className="app"><Users /></div></ErrorBoundary>
UsersApp == [boundary |-> TRUE, page |-> "Users"]

\* App of frontend/src/App.tsx: <div className="app"><HealthPage /></div>
HealthApp == [boundary |-> FALSE, page |-> "HealthPage"]

\* the Dns lookups before they are made
NoHost == [nameThrows |-> FALSE, entryThrows |-> FALSE, addressList |-> <<>>]

\* What the User Store did last: the operation, the client and the id it was
\* for, and its outcome: "arrived" and "inside" for the steps of a create
\* that has not answered yet, else the answer "ok", "ValidationError" (with
\* the fields it names) or "NotFound"; users are the records returned.
Reply(op, kind, c, i, fields, us) ==
    [op |-> op, kind |-> kind, client |-> c, id |-> i, fields |-> fields, users |-> us]

\* the User Store before it handled a request
NoReply == Reply("none", "none", 0, 0, {}, <<>>)

----------------------------------------------------------------------------
(* What the network can answer *)

\* users the server lists: ids 1..n
Listed(n) == [k \in 1..n |-> User(k, AdaName, AdaEmail)]

UserLists == { Listed(n) : n \in 0..MaxListed }

ErrorResponses ==
    { Response(500, "Internal Server Error", "boom", FALSE, <<>>),
      Response(404, "Not Found", "", FALSE, <<>>) }

\* what the fetch of request r can settle to
FetchOutcomes(r) ==
    {Rejected} \cup ErrorResponses \cup
    CASE r.op = "getUsers" ->
            { Response(200, "OK", "", TRUE, l) : l \in UserLists }
            \cup { Response(200, "OK", "", FALSE, <<>>) }
      [] r.op = "createUser" ->
            { Response(201, "Created", "", TRUE, <<User(i, r.dto.name, r.dto.email)>>) :
                i \in (MaxListed + 1)..MaxId }
      [] r.op = "deleteUser" ->
            { Response(204, "No Content", "", FALSE, <<>>) }
      [] OTHER -> {}

\* the calls still in flight once r has settled; when the handler of r sets
\* `error` to a message (failed) or removes id gone from the list, they note it
Others(r, failed, gone) ==
    { [q EXCEPT !.errSince = q.errSince \/ failed,
                !.removedSince = q.removedSince \cup gone] : q \in inflight \ {r} }

----------------------------------------------------------------------------
(* components/UserForm.tsx *)

NoErrors == [name |-> "", email |-> ""]

\* newErrors as validate() builds it
newErrors(n, e) ==
    [name  |-> IF ~isNotEmpty(n) THEN "Name is required" ELSE "",
     email |-> IF ~isNotEmpty(e) THEN "Email is required"
               ELSE IF ~isValidEmail(e) THEN "Please enter a valid email address"
               ELSE ""]

\* variant: only the name is looked at
validate_nameOnly(n, e) == isNotEmpty(n)

\* variant: only the email is looked at
validate_emailOnly(n, e) == isNotEmpty(e) /\ isValidEmail(e)

\* Object.keys(newErrors).length === 0
validate(n, e) == newErrors(n, e) = NoErrors

\* onChange of the name input
SetName(v) ==
    /\ mounted
    /\ name' = v
    /\ last' = Event("setName", NoRequest, NoFetch, NoResult)
    /\ UNCHANGED <<viewVars, email, errors, mounted, inflight, nreq>>
    /\ UNCHANGED <<appVars, serverVars, storeVars, wire, checkVars>>

\* onChange of the email input
SetEmail(v) ==
    /\ mounted
    /\ email' = v
    /\ last' = Event("setEmail", NoRequest, NoFetch, NoResult)
    /\ UNCHANGED <<viewVars, name, errors, mounted, inflight, nreq>>
    /\ UNCHANGED <<appVars, serverVars, storeVars, wire, checkVars>>

----------------------------------------------------------------------------
(* pages/Users.tsx *)

\* variant: the ApiError's message is left out
caught_noMessage(prefix, err) ==
    IF err.kind = "ApiError" THEN prefix ELSE "An unexpected error occurred"

\* variant: the catch blocks do not test `err instanceof ApiError`
caught_alwaysPrefix(prefix, err) == prefix \o err.message

\* `Failed to ... : ${err.message}` or the generic message of the catch blocks
caught(prefix, err) ==
    IF err.kind = "ApiError" THEN prefix \o err.message
    ELSE "An unexpected error occurred"

\* useEffect(() => { loadUsers(); }, []): loadUsers up to its await
loadUsers ==
    /\ ~mounted
    /\ mounted' = TRUE
    /\ loading' = TRUE
    /\ error' = null
    /\ LET r == Request(nreq + 1, "getUsers", 0, NoDto, users, selectedUser) IN
        /\ inflight' = inflight \cup {r}
        /\ last' = Event("mount", r, NoFetch, NoResult)
    /\ nreq' = nreq + 1
    /\ UNCHANGED <<users, selectedUser, formVars>>
    /\ UNCHANGED <<appVars, serverVars, storeVars, wire, checkVars>>

\* variant: setLoading(false) at the end of the try block instead of in finally
loadUsersSettled_noFinally(r, fetched) ==
    /\ r \in inflight /\ r.op = "getUsers"
    /\ LET res == getUsers(fetched) IN
        /\ users' = IF res.kind = "ok" THEN res.data ELSE users
        /\ error' = IF res.kind = "ok" THEN error
                    ELSE <<caught("Failed to load users: ", res)>>
        /\ loading' = IF res.kind = "ok" THEN FALSE ELSE loading
        /\ inflight' = Others(r, res.kind # "ok", {})
        /\ last' = Event("loadSettled", r, fetched, res)
    /\ UNCHANGED <<selectedUser, formVars, mounted, nreq>>
    /\ UNCHANGED <<appVars, serverVars, storeVars, wire, checkVars>>

\* variant: the loaded records are added to the list instead of replacing it
loadUsersSettled_appends(r, fetched) ==
    /\ r \in inflight /\ r.op = "getUsers"
    /\ LET res == getUsers(fetched) IN
        /\ users' = IF res.kind = "ok" THEN users \o res.data ELSE users
        /\ error' = IF res.kind = "ok" THEN error
                    ELSE <<caught("Failed to load users: ", res)>>
        /\ inflight' = Others(r, res.kind # "ok", {})
        /\ last' = Event("loadSettled", r, fetched, res)
    /\ loading' = FALSE
    /\ UNCHANGED <<selectedUser, formVars, mounted, nreq>>
    /\ UNCHANGED <<appVars, serverVars, storeVars, wire, checkVars>>

\* loadUsers from its await on: try, catch and finally
loadUsersSettled(r, fetched) ==
    /\ r \in inflight /\ r.op = "getUsers"
    /\ LET res == getUsers(fetched) IN
        /\ users' = IF res.kind = "ok" THEN res.data ELSE users
        /\ error' = IF res.kind = "ok" THEN error
                    ELSE <<caught("Failed to load users: ", res)>>
        /\ inflight' = Others(r, res.kind # "ok", {})
        /\ last' = Event("loadSettled", r, fetched, res)
    /\ loading' = FALSE
    /\ UNCHANGED <<selectedUser, formVars, mounted, nreq>>
    /\ UNCHANGED <<appVars, serverVars, storeVars, wire, checkVars>>

\* variant: the create shows the loading indicator as the load does
handleCreateUser_setsLoading(userDto) ==
    /\ nreq < MaxRequests
    /\ loading' = TRUE
    /\ error' = null
    /\ LET r == Request(nreq + 1, "createUser", 0, userDto, users, selectedUser) IN
        /\ inflight' = inflight \cup {r}
        /\ last' = Event("submit", r, NoFetch, NoResult)
    /\ nreq' = nreq + 1
    /\ UNCHANGED <<users, selectedUser>>

\* variant: setError(null) is missing
handleCreateUser_keepsError(userDto) ==
    /\ nreq < MaxRequests
    /\ LET r == Request(nreq + 1, "createUser", 0, userDto, users, selectedUser) IN
        /\ inflight' = inflight \cup {r}
        /\ last' = Event("submit", r, NoFetch, NoResult)
    /\ nreq' = nreq + 1
    /\ UNCHANGED <<users, loading, selectedUser, error>>

\* handleCreateUser up to its await, called with the users of the current render
handleCreateUser(userDto) ==
    /\ nreq < MaxRequests
    /\ error' = null
    /\ LET r == Request(nreq + 1, "createUser", 0, userDto, users, selectedUser) IN
        /\ inflight' = inflight \cup {r}
        /\ last' = Event("submit", r, NoFetch, NoResult)
    /\ nreq' = nreq + 1
    /\ UNCHANGED <<users, loading, selectedUser>>

\* variant: a successful create is followed by loadUsers()
handleCreateUserSettled_reloads(r, fetched) ==
    /\ r \in inflight /\ r.op = "createUser"
    /\ LET res == createUser(fetched)
           again == Request(nreq + 1, "getUsers", 0, NoDto, users, selectedUser)
           reload == res.kind = "ok" /\ nreq < MaxRequests
       IN
        /\ users' = IF res.kind = "ok" THEN r.users \o <<res.data[1]>> ELSE users
        /\ error' = IF res.kind = "ok" THEN error
                    ELSE <<caught("Failed to create user: ", res)>>
        /\ inflight' = Others(r, res.kind # "ok", {})
                            \cup (IF reload THEN {again} ELSE {})
        /\ nreq' = IF reload THEN nreq + 1 ELSE nreq
        /\ loading' = IF reload THEN TRUE ELSE loading
        /\ last' = Event("createSettled", r, fetched, res)
    /\ UNCHANGED <<selectedUser, formVars, mounted>>
    /\ UNCHANGED <<appVars, serverVars, storeVars, wire, checkVars>>

\* handleCreateUser from its await on; r.users is the `users` it closed over
handleCreateUserSettled(r, fetched) ==
    /\ r \in inflight /\ r.op = "createUser"
    /\ LET res == createUser(fetched) IN
        /\ users' = IF res.kind = "ok" THEN r.users \o <<res.data[1]>> ELSE users
        /\ error' = IF res.kind = "ok" THEN error
                    ELSE <<caught("Failed to create user: ", res)>>
        /\ inflight' = Others(r, res.kind # "ok", {})
        /\ last' = Event("createSettled", r, fetched, res)
    /\ UNCHANGED <<loading, selectedUser, formVars, mounted, nreq>>
    /\ UNCHANGED <<appVars, serverVars, storeVars, wire, checkVars>>

\* users.filter((u) => u.id !== id)
without(us, id) == SelectSeq(us, LAMBDA u : u.id # id)

\* the rows UserList renders: none while loading
rows == IF loading THEN {} ELSE { users[k] : k \in 1..Len(users) }

\* variant: the answer to window.confirm is ignored
handleDeleteUser_noGate(id, confirmed) ==
    /\ mounted
    /\ \E u \in rows : u.id = id
    /\ nreq < MaxRequests
    /\ error' = null
    /\ LET r == Request(nreq + 1, "deleteUser", id, NoDto, users, selectedUser) IN
        /\ inflight' = inflight \cup {r}
        /\ last' = IF confirmed THEN Event("deleteConfirmed", r, NoFetch, NoResult)
                   ELSE Event("deleteDeclined", NoRequest, NoFetch, NoResult)
    /\ nreq' = nreq + 1
    /\ UNCHANGED <<users, loading, selectedUser, formVars, mounted>>
    /\ UNCHANGED <<appVars, serverVars, storeVars, wire, checkVars>>

\* handleDeleteUser up to its await: the click on a row's Delete button and
\* the answer to window.confirm
handleDeleteUser(id, confirmed) ==
    /\ mounted
    /\ \E u \in rows : u.id = id
    /\ IF ~confirmed
       THEN /\ last' = Event("deleteDeclined", NoRequest, NoFetch, NoResult)
            /\ UNCHANGED <<viewVars, inflight, nreq>>
       ELSE /\ nreq < MaxRequests
            /\ error' = null
            /\ LET r == Request(nreq + 1, "deleteUser", id, NoDto, users, selectedUser) IN
                /\ inflight' = inflight \cup {r}
                /\ last' = Event("deleteConfirmed", r, NoFetch, NoResult)
            /\ nreq' = nreq + 1
            /\ UNCHANGED <<users, loading, selectedUser>>
    /\ UNCHANGED <<formVars, mounted>>
    /\ UNCHANGED <<appVars, serverVars, storeVars, wire, checkVars>>

\* handleDeleteUser from its await on; r.users and r.selectedUser are the
\* `users` and `selectedUser` it closed over
handleDeleteUserSettled(r, fetched) ==
    /\ r \in inflight /\ r.op = "deleteUser"
    /\ LET res == deleteUser(fetched) IN
        /\ users' = IF res.kind = "ok" THEN without(r.users, r.id) ELSE users
        /\ selectedUser' =
                IF res.kind = "ok" /\ r.selectedUser # null /\ r.selectedUser[1].id = r.id
                THEN null ELSE selectedUser
        /\ error' = IF res.kind = "ok" THEN error
                    ELSE <<caught("Failed to delete user: ", res)>>
        /\ inflight' = Others(r, res.kind # "ok", IF res.kind = "ok" THEN {r.id} ELSE {})
        /\ last' = Event("deleteSettled", r, fetched, res)
    /\ UNCHANGED <<loading, formVars, mounted, nreq>>
    /\ UNCHANGED <<appVars, serverVars, storeVars, wire, checkVars>>

\* variant: selecting a row also dismisses the error banner
handleUserSelect_clearsError(user) ==
    /\ mounted
    /\ user \in rows
    /\ selectedUser' = <<user>>
    /\ error' = null
    /\ last' = Event("select", [NoRequest EXCEPT !.id = user.id], NoFetch, NoResult)
    /\ UNCHANGED <<users, loading, formVars, mounted, inflight, nreq>>
    /\ UNCHANGED <<appVars, serverVars, storeVars, wire, checkVars>>

\* onUserSelect: the click on a row
handleUserSelect(user) ==
    /\ mounted
    /\ user \in rows
    /\ selectedUser' = <<user>>
    /\ last' = Event("select", [NoRequest EXCEPT !.id = user.id], NoFetch, NoResult)
    /\ UNCHANGED <<users, loading, error, formVars, mounted, inflight, nreq>>
    /\ UNCHANGED <<appVars, serverVars, storeVars, wire, checkVars>>

\* onCancel, passed to the form only while selectedUser is set
onCancel ==
    /\ mounted
    /\ selectedUser # null
    /\ selectedUser' = null
    /\ last' = Event("cancel", NoRequest, NoFetch, NoResult)
    /\ UNCHANGED <<users, loading, error, formVars, mounted, inflight, nreq>>
    /\ UNCHANGED <<appVars, serverVars, storeVars, wire, checkVars>>

\* the button of the error banner, rendered only while error is set
dismissError ==
    /\ mounted
    /\ error # null
    /\ error' = null
    /\ last' = Event("dismiss", NoRequest, NoFetch, NoResult)
    /\ UNCHANGED <<users, loading, selectedUser, formVars, mounted, inflight, nreq>>
    /\ UNCHANGED <<appVars, serverVars, storeVars, wire, checkVars>>

\* the DTOs handleSubmit passes to onSubmit, for the field values of a set
Submitted(names, emails) ==
    { [name |-> trim(n), email |-> trim(e)] :
        <<n, e>> \in { p \in names \X emails : validate(p[1], p[2]) } }

\* the form's call of its onSubmit prop, which is handleCreateUser (Users.tsx:93)
onSubmit(userDto) ==
    /\ mounted
    /\ handleCreateUser(userDto)
    /\ UNCHANGED <<formVars, mounted>>
    /\ UNCHANGED <<appVars, serverVars, storeVars, wire, checkVars>>

\* variant: the fields are left as typed after a valid submission
handleSubmit_keepsFields ==
    /\ mounted
    /\ IF validate(name, email)
       THEN /\ handleCreateUser([name |-> trim(name), email |-> trim(email)])
            /\ errors' = NoErrors
            /\ UNCHANGED <<name, email>>
       ELSE /\ errors' = newErrors(name, email)
            /\ last' = Event("submit", NoRequest, NoFetch, NoResult)
            /\ UNCHANGED <<viewVars, name, email, inflight, nreq>>
    /\ UNCHANGED mounted
    /\ UNCHANGED <<appVars, serverVars, storeVars, wire, checkVars>>

\* UserForm's handleSubmit; it calls onSubmit once the fields validate
handleSubmit ==
    /\ mounted
    /\ IF validate(name, email)
       THEN /\ handleCreateUser([name |-> trim(name), email |-> trim(email)])
            /\ name' = <<>>
            /\ email' = <<>>
            /\ errors' = NoErrors
       ELSE /\ errors' = newErrors(name, email)
            /\ last' = Event("submit", NoRequest, NoFetch, NoResult)
            /\ UNCHANGED <<viewVars, name, email, inflight, nreq>>
    /\ UNCHANGED mounted
    /\ UNCHANGED <<appVars, serverVars, storeVars, wire, checkVars>>

----------------------------------------------------------------------------
(* The page after its first render, before its mount effect *)

PageInit ==
    /\ users = <<>>
    /\ loading = TRUE
    /\ error = null
    /\ selectedUser = null
    /\ name = <<>>
    /\ email = <<>>
    /\ errors = NoErrors
    /\ mounted = FALSE
    /\ inflight = {}
    /\ nreq = 0
    /\ last = Event("render", NoRequest, NoFetch, NoResult)

\* the application as rendered first, a server that was asked nothing, an
\* empty store
Init ==
    /\ PageInit
    /\ root = UsersApp
    /\ shown = "app"
    /\ host = NoHost
    /\ ipDto = null
    /\ store = <<>>
    /\ nextId = 1
    /\ holder = {}
    /\ issued = <<>>
    /\ reply = NoReply
    /\ wire = {}
    /\ input = <<>>
    /\ verdict = null

Next ==
    \/ loadUsers
    \/ \E d \in Submitted(NameInputs, EmailInputs) : onSubmit(d)
    \/ \E i \in 1..MaxId : \E c \in BOOLEAN : handleDeleteUser(i, c)
    \/ \E u \in rows : handleUserSelect(u)
    \/ onCancel
    \/ dismissError
    \/ \E r \in inflight : \E f \in FetchOutcomes(r) : loadUsersSettled(r, f)
    \/ \E r \in inflight : \E f \in FetchOutcomes(r) : handleCreateUserSettled(r, f)
    \/ \E r \in inflight : \E f \in FetchOutcomes(r) : handleDeleteUserSettled(r, f)

\* The Users view and the API client; the form takes part through the DTOs
\* it submits.
Spec == Init /\ [][Next]_vars

\* The form inside the page: typing and submitting.
FormNext ==
    \/ loadUsers
    \/ \E v \in NameInputs : SetName(v)
    \/ \E v \in EmailInputs : SetEmail(v)
    \/ handleSubmit

FormSpec == Init /\ [][FormNext]_vars

\* The form inside the page, with the responses to what it submitted.
SubmitNext ==
    \/ loadUsers
    \/ \E v \in NameInputs : SetName(v)
    \/ \E v \in EmailInputs : SetEmail(v)
    \/ handleSubmit
    \/ \E r \in inflight : \E f \in FetchOutcomes(r) : loadUsersSettled(r, f)
    \/ \E r \in inflight : \E f \in FetchOutcomes(r) : handleCreateUserSettled(r, f)

SubmitSpec == Init /\ [][SubmitNext]_vars

----------------------------------------------------------------------------
(* The API client on its own: any caller, any operation, any answer *)

Statuses == {200, 204, 299, 300, 404, 500}

\* every answer a fetch can give, whatever the operation
AnyOutcome ==
    {Rejected}
    \cup { Response(st, stText, txt, FALSE, <<>>) :
            st \in { x \in Statuses : x >= 300 },
            stText \in {"", "Status Text"}, txt \in {"", "boom"} }
    \cup { Response(st, "Status Text", "", jok, Listed(1)) :
            st \in { x \in Statuses : x < 300 }, jok \in BOOLEAN }

\* a call of userService[op] up to its await of fetch
call(op, id, userDto) ==
    /\ nreq < MaxRequests
    /\ LET r == Request(nreq + 1, op, id, userDto, <<>>, null) IN
        /\ inflight' = inflight \cup {r}
        /\ last' = Event("call", r, NoFetch, NoResult)
    /\ nreq' = nreq + 1
    /\ UNCHANGED <<viewVars, formVars, mounted>>
    /\ UNCHANGED <<appVars, serverVars, storeVars, wire, checkVars>>

\* variant: a call whose request failed issues the request again
settled_retry(r, fetched) ==
    /\ r \in inflight
    /\ LET res == userService(r.op, fetched) IN
        /\ inflight' = IF res.kind = "ok" THEN inflight \ {r} ELSE inflight
        /\ nreq' = IF res.kind = "ok" THEN nreq ELSE nreq + 1
        /\ last' = Event("settled", r, fetched, res)
    /\ UNCHANGED <<viewVars, formVars, mounted>>
    /\ UNCHANGED <<appVars, serverVars, storeVars, wire, checkVars>>

\* the call from its await on: it resolves or throws
settled(r, fetched) ==
    /\ r \in inflight
    /\ inflight' = inflight \ {r}
    /\ last' = Event("settled", r, fetched, userService(r.op, fetched))
    /\ UNCHANGED <<viewVars, formVars, mounted, nreq>>
    /\ UNCHANGED <<appVars, serverVars, storeVars, wire, checkVars>>

ApiNext ==
    \/ \E op \in {"getUsers"} : call(op, 0, NoDto)
    \/ \E op \in {"getUserById", "deleteUser"} : call(op, 1, NoDto)
    \/ \E d \in Submitted(NameInputs, EmailInputs) : call("createUser", 0, d)
    \/ \E d \in Submitted(NameInputs, EmailInputs) : call("updateUser", 1, d)
    \/ \E r \in inflight : \E f \in AnyOutcome : settled(r, f)

ApiSpec == Init /\ [][ApiNext]_vars

----------------------------------------------------------------------------
(* The application root and rendering faults *)

\* the two App components of the repository
Roots == {UsersApp, HealthApp}

\* the state of a page that is not mounted: what its next mount starts from
Unmounted(ev) ==
    /\ users' = <<>>
    /\ loading' = TRUE
    /\ error' = null
    /\ selectedUser' = null
    /\ name' = <<>>
    /\ email' = <<>>
    /\ errors' = NoErrors
    /\ mounted' = FALSE
    /\ inflight' = {}
    /\ nreq' = 0
    /\ last' = Event(ev, NoRequest, NoFetch, NoResult)

\* A component below the root throws while it renders.  React unmounts the
\* tree up to the nearest error boundary, which renders its fallback; with no
\* boundary above the fault it unmounts the whole tree and the page is blank.
renderFault ==
    /\ shown = "app"
    /\ shown' = IF root.boundary THEN "fallback" ELSE "blank"
    /\ Unmounted("fault")
    /\ UNCHANGED <<root, serverVars, storeVars, wire, checkVars>>

\* the reset of the boundary: it renders its children again, mounted anew
reset ==
    /\ shown = "fallback"
    /\ shown' = "app"
    /\ Unmounted("reset")
    /\ UNCHANGED <<root, serverVars, storeVars, wire, checkVars>>

\* either App as the root; the Users page works while it is displayed
BoundaryInit ==
    /\ PageInit
    /\ root \in Roots
    /\ shown = "app"
    /\ host = NoHost
    /\ ipDto = null
    /\ store = <<>>
    /\ nextId = 1
    /\ holder = {}
    /\ issued = <<>>
    /\ reply = NoReply
    /\ wire = {}
    /\ input = <<>>
    /\ verdict = null

\* whether the Users page is on display
Displayed == shown = "app" /\ root.page = "Users"

BoundaryNext ==
    \/ renderFault
    \/ reset
    \/ Displayed /\ loadUsers
    \/ Displayed /\ \E v \in NameInputs : SetName(v)
    \/ Displayed /\ \E v \in EmailInputs : SetEmail(v)
    \/ Displayed /\ handleSubmit

BoundarySpec == BoundaryInit /\ [][BoundaryNext]_vars

----------------------------------------------------------------------------
(* backend: Api/Controllers/ServerInfoController.cs *)

\* addresses in the list of one host entry
MaxAddresses == 3

\* System.Net.IPAddress: its family and its bytes (IPv4) or groups (IPv6)
IPAddress(family, parts) == [AddressFamily |-> family, parts |-> parts]

Addresses ==
    { IPAddress("InterNetwork", <<10, 0, 0, 1>>),
      IPAddress("InterNetwork", <<192, 168, 0, 2>>),
      IPAddress("InterNetworkV6", <<0, 0, 0, 0, 0, 0, 0, 1>>),
      IPAddress("InterNetworkV6", <<9, 0, 0, 0, 0, 0, 0, 2>>) }

\* what Dns.GetHostName and Dns.GetHostEntry can give: either throws, or the
\* entry has a list of addresses
Hosts ==
    { [nameThrows |-> n, entryThrows |-> e, addressList |-> l] :
        n \in BOOLEAN, e \in BOOLEAN,
        l \in UNION { [1..k -> Addresses] : k \in 0..MaxAddresses } }

\* IPAddress.ToString(): dotted decimal for IPv4; for IPv6 the groups in
\* hexadecimal with the run of zero groups written "::" (the addresses of the
\* model have their zero groups in the middle and groups below 10)
IPAddressToString(ip) ==
    IF ip.AddressFamily = "InterNetwork"
    THEN ToString(ip.parts[1]) \o "." \o ToString(ip.parts[2]) \o "."
         \o ToString(ip.parts[3]) \o "." \o ToString(ip.parts[4])
    ELSE (IF ip.parts[1] = 0 THEN "" ELSE ToString(ip.parts[1]))
         \o "::" \o ToString(ip.parts[8])

ServerIpDto(ip) == [threw |-> FALSE, Ip |-> ip]

\* an exception leaving a block
Thrown == [threw |-> TRUE, Ip |-> ""]

\* variant: every address is taken for an IPv4 address
isInterNetwork_any(ip) == TRUE

\* ip => ip.AddressFamily == AddressFamily.InterNetwork
isInterNetwork(ip) == ip.AddressFamily = "InterNetwork"

\* AddressList.FirstOrDefault(isInterNetwork): the first address of the list
\* that satisfies the predicate, or null
FirstOrDefault(addressList) ==
    IF \E k \in 1..Len(addressList) : isInterNetwork(addressList[k])
    THEN << addressList[CHOOSE k \in 1..Len(addressList) :
                /\ isInterNetwork(addressList[k])
                /\ \A j \in 1..(k - 1) : ~isInterNetwork(addressList[j])] >>
    ELSE null

\* the try block of GetServerIp, given what the Dns lookups do
tryBlock(h) ==
    IF h.nameThrows \/ h.entryThrows
    THEN Thrown
    ELSE LET ipAddress == FirstOrDefault(h.addressList)
             ipString == IF ipAddress = null THEN "127.0.0.1"
                         ELSE IPAddressToString(ipAddress[1])
         IN  ServerIpDto(ipString)

\* GetServerIp: the try block, and the catch block for anything it throws
GetServerIp(h) ==
    IF tryBlock(h).threw THEN ServerIpDto("127.0.0.1") ELSE tryBlock(h)

\* GET api/ServerInfo/ip
GetIp ==
    /\ ipDto = null
    /\ ipDto' = <<GetServerIp(host)>>
    /\ UNCHANGED <<pageVars, appVars, host, storeVars, wire, checkVars>>

\* any host, before the request
IpInit ==
    /\ PageInit
    /\ root = UsersApp
    /\ shown = "app"
    /\ host \in Hosts
    /\ ipDto = null
    /\ store = <<>>
    /\ nextId = 1
    /\ holder = {}
    /\ issued = <<>>
    /\ reply = NoReply
    /\ wire = {}
    /\ input = <<>>
    /\ verdict = null

IpNext == GetIp

IpSpec == IpInit /\ [][IpNext]_vars

----------------------------------------------------------------------------
(* The User Store (spec sections 3, 4.1 and 5) *)

\* clients whose create requests can be handled at the same time
MaxClients == 2
\* create requests are accepted while the next id is at most MaxStored
MaxStored == 2

\* the (name, email) pairs of create requests: a valid one with surrounding
\* blanks, and invalid ones
StoreInputs ==
    { [name |-> <<" ", "a", " ">>, email |-> <<" ", "a", "@", "a", ".", "a">>],
      [name |-> <<>>, email |-> AdaEmail],
      [name |-> <<"a">>, email |-> <<" ">>],
      [name |-> <<"a">>, email |-> <<"a", "@", "a">>],
      [name |-> <<" ">>, email |-> <<"a", "@", "a">>] }

\* the (name, email) pairs of update requests: a valid one and an invalid one
UpdateInputs ==
    { [name |-> <<"b">>, email |-> AdaEmail],
      [name |-> <<"b">>, email |-> <<"a", "@", "a">>] }

\* the ids update and delete requests can name
StoreIds == 1..(MaxStored + 1)

\* variant: only the name is validated
invalidFields_nameOnly(n, e) == IF trim(n) = <<>> THEN {"name"} ELSE {}

\* the fields a validation error names: name empty after trimming, email
\* empty after trimming or not of the shape local@domain.tld
invalidFields(n, e) ==
    (IF trim(n) = <<>> THEN {"name"} ELSE {})
    \cup (IF trim(e) = <<>> \/ ~isValidEmail(trim(e)) THEN {"email"} ELSE {})

\* variant: the id is the size of the collection plus one
assignId_count(nid, coll) == Len(coll) + 1

\* the next unused id
assignId(nid, coll) == nid

\* variant: no mutual exclusion
guardFree_unguarded(h) == TRUE

\* the mutual-exclusion guard around read-modify-write sequences is free:
\* no request is inside one
guardFree(h) == \A q \in h : q.phase # "inside"

\* variant: deleting an absent id is a silent no-op
deleteOutcome_silent(coll, i) == "ok"

\* delete fails with NotFound if the id is absent
deleteOutcome(coll, i) ==
    IF \E k \in 1..Len(coll) : coll[k].id = i THEN "ok" ELSE "NotFound"

\* a create request of client c reaches the store, maybe while others are
\* being handled
arrive(c, d) ==
    /\ nextId <= MaxStored
    /\ \A r \in holder : r.client # c
    /\ holder' = holder \cup
            { [client |-> c, name |-> d.name, email |-> d.email, phase |-> "arrived",
               id |-> 0, seen |-> <<>>] }
    /\ reply' = Reply("create", "arrived", c, 0, {}, <<>>)
    /\ UNCHANGED <<store, nextId, issued>>
    /\ UNCHANGED <<pageVars, appVars, serverVars, wire, checkVars>>

\* create(name, email) up to its read: it validates, and with valid fields
\* enters the guard and reads the next id and the collection
create(r) ==
    /\ r \in holder /\ r.phase = "arrived"
    /\ IF invalidFields(r.name, r.email) # {}
       THEN /\ holder' = holder \ {r}
            /\ reply' = Reply("create", "ValidationError", r.client, 0,
                              invalidFields(r.name, r.email), <<>>)
       ELSE /\ guardFree(holder)
            /\ holder' = (holder \ {r}) \cup
                    { [r EXCEPT !.phase = "inside", !.id = assignId(nextId, store),
                                !.seen = store] }
            /\ reply' = Reply("create", "inside", r.client, assignId(nextId, store),
                              {}, <<>>)
    /\ UNCHANGED <<store, nextId, issued>>
    /\ UNCHANGED <<pageVars, appVars, serverVars, wire, checkVars>>

\* create from its read on: it stores the record, advances the next id,
\* leaves the guard and returns the record
createCommit(r) ==
    /\ r \in holder /\ r.phase = "inside"
    /\ LET u == User(r.id, trim(r.name), trim(r.email)) IN
        /\ store' = Append(r.seen, u)
        /\ reply' = Reply("create", "ok", r.client, r.id, {}, <<u>>)
    /\ nextId' = r.id + 1
    /\ issued' = Append(issued, r.id)
    /\ holder' = holder \ {r}
    /\ UNCHANGED <<pageVars, appVars, serverVars, wire, checkVars>>

\* variant: an update of an absent id stores the record (an upsert)
update_upsert(i, d) ==
    /\ guardFree(holder)
    /\ IF invalidFields(d.name, d.email) # {}
       THEN /\ reply' = Reply("update", "ValidationError", 0, i,
                              invalidFields(d.name, d.email), <<>>)
            /\ UNCHANGED store
       ELSE LET u == User(i, trim(d.name), trim(d.email)) IN
            /\ store' = IF \E k \in 1..Len(store) : store[k].id = i
                        THEN [k \in 1..Len(store) |->
                                IF store[k].id = i THEN u ELSE store[k]]
                        ELSE Append(store, u)
            /\ reply' = Reply("update", "ok", 0, i, {}, <<u>>)
    /\ UNCHANGED <<nextId, holder, issued>>
    /\ UNCHANGED <<pageVars, appVars, serverVars, wire, checkVars>>

\* update(id, name, email), inside the guard
update(i, d) ==
    /\ guardFree(holder)
    /\ IF ~\E k \in 1..Len(store) : store[k].id = i
       THEN /\ reply' = Reply("update", "NotFound", 0, i, {}, <<>>)
            /\ UNCHANGED store
       ELSE IF invalidFields(d.name, d.email) # {}
       THEN /\ reply' = Reply("update", "ValidationError", 0, i,
                              invalidFields(d.name, d.email), <<>>)
            /\ UNCHANGED store
       ELSE LET u == User(i, trim(d.name), trim(d.email)) IN
            /\ store' = [k \in 1..Len(store) |-> IF store[k].id = i THEN u ELSE store[k]]
            /\ reply' = Reply("update", "ok", 0, i, {}, <<u>>)
    /\ UNCHANGED <<nextId, holder, issued>>
    /\ UNCHANGED <<pageVars, appVars, serverVars, wire, checkVars>>

\* delete(id), inside the guard
delete(i) ==
    /\ guardFree(holder)
    /\ reply' = Reply("delete", deleteOutcome(store, i), 0, i, {}, <<>>)
    /\ store' = SelectSeq(store, LAMBDA u : u.id # i)
    /\ UNCHANGED <<nextId, holder, issued>>
    /\ UNCHANGED <<pageVars, appVars, serverVars, wire, checkVars>>

\* list()
list ==
    /\ reply' = Reply("list", "ok", 0, 0, {}, store)
    /\ UNCHANGED <<store, nextId, holder, issued>>
    /\ UNCHANGED <<pageVars, appVars, serverVars, wire, checkVars>>

StoreNext ==
    \/ \E c \in 1..MaxClients : \E d \in StoreInputs : arrive(c, d)
    \/ \E r \in holder : create(r)
    \/ \E r \in holder : createCommit(r)
    \/ \E i \in StoreIds : \E d \in UpdateInputs : update(i, d)
    \/ \E i \in StoreIds : delete(i)
    \/ list

\* the store of a server that has just started
StoreSpec == Init /\ [][StoreNext]_vars

----------------------------------------------------------------------------
(* utils/sanitize.ts on its own: the validators applied to any string *)

\* length of the strings handed to the validators
MaxLen == 6
\* calls of the validators with the same string
MaxCalls == 2

\* the characters of those strings: a letter, the two characters the pattern
\* names, and whitespace
Alphabet == {"a", "@", "."} \cup Whitespace

Strings == UNION { [1..n -> Alphabet] : n \in 0..MaxLen }

\* one more call of isValidEmail(input) and isNotEmpty(input)
sanitize ==
    /\ (IF verdict = null THEN 0 ELSE verdict[1].call) < MaxCalls
    /\ verdict' = << [isValidEmail |-> isValidEmail(input),
                      isNotEmpty |-> isNotEmpty(input),
                      call |-> (IF verdict = null THEN 0 ELSE verdict[1].call) + 1] >>
    /\ UNCHANGED <<pageVars, appVars, serverVars, storeVars, wire, input>>

\* any string, before the validators are called
SanitizeInit ==
    /\ PageInit
    /\ root = UsersApp
    /\ shown = "app"
    /\ host = NoHost
    /\ ipDto = null
    /\ store = <<>>
    /\ nextId = 1
    /\ holder = {}
    /\ issued = <<>>
    /\ reply = NoReply
    /\ wire = {}
    /\ input \in Strings
    /\ verdict = null

SanitizeNext == sanitize

SanitizeSpec == SanitizeInit /\ [][SanitizeNext]_vars

----------------------------------------------------------------------------
(* The view and the server together: the view is the store's only client *)

\* The server handles the request of call r: it answers from its collection
\* and, for a create or a delete, changes it.  The form sends valid fields
\* only, so a create is never refused.
serve(r) ==
    /\ r \in inflight
    /\ \A w \in wire : w.rid # r.rid
    /\ LET found == \E k \in 1..Len(store) : store[k].id = r.id
           u == User(nextId, r.dto.name, r.dto.email)
           fetched ==
             CASE r.op = "getUsers" -> Response(200, "OK", "", TRUE, store)
               [] r.op = "createUser" -> Response(201, "Created", "", TRUE, <<u>>)
               [] r.op = "deleteUser" ->
                    IF found THEN Response(204, "No Content", "", FALSE, <<>>)
                    ELSE Response(404, "Not Found", "", FALSE, <<>>)
       IN
        /\ store' = CASE r.op = "createUser" -> Append(store, u)
                      [] r.op = "deleteUser" -> SelectSeq(store, LAMBDA x : x.id # r.id)
                      [] OTHER -> store
        /\ nextId' = IF r.op = "createUser" THEN nextId + 1 ELSE nextId
        /\ wire' = wire \cup { [rid |-> r.rid, fetched |-> fetched] }
        /\ last' = Event("served", r, fetched, NoResult)
    /\ UNCHANGED <<viewVars, formVars, mounted, inflight, nreq>>
    /\ UNCHANGED <<appVars, serverVars, holder, issued, reply, checkVars>>

\* the response to call r, once the server has sent it
Arrived(r) == { w.fetched : w \in { x \in wire : x.rid = r.rid } }

\* a server that holds the users 1..n when the page is opened
SystemInit ==
    /\ PageInit
    /\ root = UsersApp
    /\ shown = "app"
    /\ host = NoHost
    /\ ipDto = null
    /\ \E n \in 0..MaxListed : store = Listed(n) /\ nextId = n + 1
    /\ holder = {}
    /\ issued = <<>>
    /\ reply = NoReply
    /\ wire = {}
    /\ input = <<>>
    /\ verdict = null

SystemNext ==
    \/ loadUsers
    \/ \E d \in Submitted(NameInputs, EmailInputs) : onSubmit(d)
    \/ \E i \in 1..MaxId : \E c \in BOOLEAN : handleDeleteUser(i, c)
    \/ \E u \in rows : handleUserSelect(u)
    \/ onCancel
    \/ \E r \in inflight : serve(r)
    \/ \E r \in inflight : \E f \in Arrived(r) : loadUsersSettled(r, f)
    \/ \E r \in inflight : \E f \in Arrived(r) : handleCreateUserSettled(r, f)
    \/ \E r \in inflight : \E f \in Arrived(r) : handleDeleteUserSettled(r, f)

SystemSpec == SystemInit /\ [][SystemNext]_vars

----------------------------------------------------------------------------
(* Properties *)

\* the ids of a list of users
Ids(us) == { us[k].id : k \in 1..Len(us) }

\* the call in flight that a response step (last'.rid) is about to settle
Settling(rid) == CHOOSE r \in inflight : r.rid = rid

SettledEvents == {"loadSettled", "createSettled", "deleteSettled"}

Prefix(ev) ==
    CASE ev = "loadSettled"   -> "Failed to load users: "
      [] ev = "createSettled" -> "Failed to create user: "
      [] ev = "deleteSettled" -> "Failed to delete user: "

\* C1: when getUsers, createUser or a confirmed deleteUser rejects with an
\* ApiError of message m, the handler leaves `users` as it was and sets
\* `error` to its prefix followed by m.
C1_ApiErrorIsShownAndUsersKept ==
    [][ last'.ev \in SettledEvents /\ last'.res.kind = "ApiError" =>
            /\ users' = users
            /\ error' = << Prefix(last'.ev) \o last'.res.message >>
            /\ error' # null /\ error'[1] # ""
      ]_vars

C1_Witness ==
    /\ last.ev = "createSettled"
    /\ last.res = ApiError(500, "boom")
    /\ error = <<"Failed to create user: boom">>
    /\ users # <<>>

\* C2: a submit while selectedUser is set calls updateUser with that id, and
\* its successful response replaces the record of that id in `users`, the
\* length and the other records staying as they are.
C2_EditSubmitCallsUpdate ==
    [][ /\ last'.ev = "submit" /\ selectedUser # null =>
                last'.op = "updateUser" /\ last'.id = selectedUser[1].id
        /\ last'.ev \in SettledEvents /\ last'.op # "getUsers" /\ last'.op # "deleteUser"
           /\ last'.res.kind = "ok" /\ Settling(last'.rid).selectedUser # null =>
                /\ Len(users') = Len(users)
                /\ \A k \in 1..Len(users) :
                     users'[k] = IF users[k].id = Settling(last'.rid).selectedUser[1].id
                                 THEN last'.res.data[1] ELSE users[k]
      ]_vars

\* C3: a successful create response appends the returned user to the `users`
\* of the moment the response is handled, whatever else was in flight.
C3_CreateAppendsToCurrentUsers ==
    [][ last'.ev = "createSettled" /\ last'.res.kind = "ok" =>
            users' = users \o << last'.res.data[1] >>
      ]_vars

\* C4: when the delete of b succeeds after deletes of other ids succeeded while
\* it was in flight (and those ids are still gone), `users` afterwards holds
\* neither b nor those ids, and every other record listed before.
C4_BothDeletesTakeEffect ==
    [][ last'.ev = "deleteSettled" /\ last'.res.kind = "ok"
        /\ Settling(last'.rid).removedSince # {}
        /\ Ids(users) \cap Settling(last'.rid).removedSince = {} =>
            /\ Ids(users') \cap (Settling(last'.rid).removedSince \cup {last'.id}) = {}
            /\ \A k \in 1..Len(users) :
                 users[k].id # last'.id => \E m \in 1..Len(users') : users'[m] = users[k]
      ]_vars

\* C5 as stated: the mount sets loading and issues getUsers; when getUsers
\* resolves with L the view has loading = false, users = L and no error; when
\* it rejects with an ApiError it has loading = false and the formatted
\* message; however getUsers settles, loading is false afterwards.
C5_LoadSettlesWithoutError ==
    [][ /\ last'.ev = "mount" =>
                loading' /\ \E r \in inflight' : r.op = "getUsers"
        /\ last'.ev = "loadSettled" => ~loading'
        /\ last'.ev = "loadSettled" /\ last'.res.kind = "ok" =>
                users' = last'.res.data /\ error' = null
        /\ last'.ev = "loadSettled" /\ last'.res.kind = "ApiError" =>
                error' = << "Failed to load users: " \o last'.res.message >>
      ]_vars

\* C5 amended: as stated, except that a resolved load leaves `error` as it
\* is: it is absent unless a handler set it while the load was in flight.
C5_LoadSettles ==
    [][ /\ last'.ev = "mount" =>
                loading' /\ \E r \in inflight' : r.op = "getUsers"
        /\ last'.ev = "loadSettled" => ~loading'
        /\ last'.ev = "loadSettled" /\ last'.res.kind = "ok" =>
                /\ users' = last'.res.data
                /\ error' = error
                /\ ~Settling(last'.rid).errSince => error' = null
        /\ last'.ev = "loadSettled" /\ last'.res.kind = "ApiError" =>
                error' = << "Failed to load users: " \o last'.res.message >>
      ]_vars

C5_Witness ==
    /\ last.ev = "loadSettled"
    /\ last.res.kind = "ok"
    /\ ~loading
    /\ Len(users) = 2
    /\ error = null

\* C6: a declined confirmation changes nothing and sends nothing; a
\* deleteUser call is only ever issued by a confirmed delete request.
C6_DeleteNeedsConfirmation ==
    [][ /\ last'.ev = "deleteDeclined" =>
                UNCHANGED <<users, error, selectedUser, loading, inflight, nreq>>
        /\ \A r \in inflight' :
                r.op = "deleteUser" /\ r.rid \notin { q.rid : q \in inflight } =>
                    last'.ev = "deleteConfirmed" /\ last'.id = r.id
      ]_vars

C6_Witness ==
    /\ last.ev = "deleteDeclined"
    /\ selectedUser # null
    /\ error # null
    /\ Len(users) = 2

\* C7: once a successful delete of d is handled, `users` has no record of id
\* d, and a selectedUser of id d (also one selected during the flight) is
\* cleared.
C7_DeleteClearsSelection ==
    [][ last'.ev = "deleteSettled" /\ last'.res.kind = "ok" =>
            /\ last'.id \notin Ids(users')
            /\ selectedUser # null /\ selectedUser[1].id = last'.id =>
                    selectedUser' = null
      ]_vars

\* C8 as stated: once a successful create or delete response is handled,
\* `error` is absent, whatever failed in the meantime.
C8_SuccessClearsError ==
    [][ last'.ev \in {"createSettled", "deleteSettled"} /\ last'.res.kind = "ok" =>
            error' = null
      ]_vars

\* C8 amended: a create or confirmed delete clears `error` when it starts,
\* and its successful response leaves `error` as it is: absent, unless a
\* handler set it between the start and the completion.
C8_ErrorClearedAtStart ==
    [][ /\ last'.ev \in {"submit", "deleteConfirmed"} => error' = null
        /\ last'.ev \in {"createSettled", "deleteSettled"} /\ last'.res.kind = "ok" =>
                /\ error' = error
                /\ ~Settling(last'.rid).errSince => error' = null
      ]_vars

C8_Witness ==
    /\ last.ev = "createSettled"
    /\ last.res.kind = "ok"
    /\ error = null
    /\ \E r \in inflight : r.op = "deleteUser"

\* a string with nothing but whitespace in it
Blank(s) == \A k \in 1..Len(s) : s[k] \in Whitespace

\* C9: a submit with a blank name, a blank email or an email that is not of
\* the email shape calls nothing, keeps the fields, and records
\* 'Name is required' for a blank name, and for the email 'Email is required'
\* when blank and 'Please enter a valid email address' otherwise.
C9_InvalidSubmitIsRejected ==
    [][ last'.ev = "submit" /\ (Blank(name) \/ Blank(email) \/ ~isValidEmail(email)) =>
            /\ inflight' = inflight /\ nreq' = nreq
            /\ name' = name /\ email' = email
            /\ errors'.name = (IF Blank(name) THEN "Name is required" ELSE "")
            /\ errors'.email = (IF Blank(email) THEN "Email is required"
                                ELSE IF ~isValidEmail(email)
                                     THEN "Please enter a valid email address" ELSE "")
      ]_vars

C9_Witness ==
    /\ last.ev = "submit"
    /\ name = <<" ">>
    /\ email = <<"a", "@", "a">>
    /\ errors = [name |-> "Name is required",
                 email |-> "Please enter a valid email address"]
    /\ inflight = { r \in inflight : r.op = "getUsers" }

\* C10: for each of the five operations, a response whose status is outside
\* 200..299 makes the call fail with an ApiError of that status whose
\* message is the body text, or the status text when the body is empty; a
\* response whose status is inside raises no ApiError.
C10_ApiErrorCarriesStatusAndBody ==
    last.ev = "settled" /\ last.fetched.kind = "response" =>
        IF last.fetched.status \in 200..299
        THEN last.res.kind # "ApiError"
        ELSE last.res = ApiError(last.fetched.status,
                                 IF last.fetched.text = "" THEN last.fetched.statusText
                                 ELSE last.fetched.text)

C10_Witness ==
    /\ last.ev = "settled"
    /\ last.op = "deleteUser"
    /\ last.fetched.status = 404
    /\ last.fetched.text = ""
    /\ last.res = ApiError(404, "Status Text")

\* what a call of userService can settle to, given what it may raise
SingleShot(raised) ==
    /\ last'.ev = "call" =>
        /\ nreq' = nreq + 1
        /\ \E r \in inflight' :
            /\ r.rid = nreq' /\ r.op = last'.op
            /\ r.rid \notin { q.rid : q \in inflight }
            /\ inflight' = inflight \cup {r}
    /\ last'.ev = "settled" =>
        /\ nreq' = nreq
        /\ \E r \in inflight : r.rid = last'.rid /\ inflight' = inflight \ {r}
        /\ \A q \in inflight' : q.rid # last'.rid
        /\ last'.res.kind \in {"ok"} \cup raised

\* C11 as stated: every call of a userService operation issues exactly one
\* HTTP request and settles exactly once, by resolving or by raising
\* ApiError; nothing is retried.
C11_SettlesOkOrApiError == [][SingleShot({"ApiError"})]_vars

\* C11: every call of a userService operation issues exactly one HTTP request
\* and settles exactly once: it resolves, raises ApiError, or raises the
\* error of fetch or of response.json(); once settled it is no longer in
\* flight, and settling issues no further request.
C11_SingleShot == [][SingleShot({"ApiError", "other"})]_vars

C11_Witness ==
    /\ last.ev = "settled"
    /\ last.op = "getUsers"
    /\ last.fetched = Rejected
    /\ last.res = OtherError
    /\ nreq = 1
    /\ inflight = {}

\* C12: when a load, a create or a confirmed delete fails with anything that
\* is not an ApiError, `error` becomes 'An unexpected error occurred',
\* `users` stays as it was, and the load still sets `loading` to false.
C12_UnexpectedErrorIsGeneric ==
    [][ last'.ev \in SettledEvents /\ last'.res.kind = "other" =>
            /\ error' = <<"An unexpected error occurred">>
            /\ users' = users
            /\ (last'.ev = "loadSettled" => ~loading')
      ]_vars

C12_Witness ==
    /\ last.ev = "loadSettled"
    /\ last.fetched = Rejected
    /\ last.res = OtherError
    /\ error = <<"An unexpected error occurred">>
    /\ users = <<>>
    /\ ~loading

\* the steps that start or finish a create or a delete
CreateDeleteEvents ==
    {"submit", "deleteConfirmed", "deleteDeclined", "createSettled", "deleteSettled"}

\* whether a getUsers call of the view is among the calls in flight
Loading(calls) == \E r \in calls : r.op = "getUsers"

\* C13 as stated: in every state `loading` is true only while a getUsers call
\* of the view is in flight; no step that starts or finishes a create or a
\* delete changes `loading`.
C13_LoadingOnlyWhileInFlight ==
    [][ /\ loading => Loading(inflight)
        /\ loading' => Loading(inflight')
        /\ last'.ev \in CreateDeleteEvents => loading' = loading
      ]_vars

\* C13: `loading` is true only in the first render, before the mount effect
\* has issued getUsers, and while that getUsers call is in flight; no step
\* that starts or finishes a create or a delete changes `loading`.
C13_LoadingOnlyDuringLoad ==
    [][ /\ loading' => ~mounted' \/ Loading(inflight')
        /\ last'.ev \in CreateDeleteEvents => loading' = loading
      ]_vars

C13_Witness ==
    /\ last.ev = "createSettled"
    /\ last.res.kind = "ok"
    /\ loading
    /\ Loading(inflight)

\* C14: selecting a row sets `selectedUser` to the record of that row and
\* cancelling, which is possible only while `selectedUser` is set, sets it to
\* null; neither issues a request or changes `users`, `loading` or `error`.
C14_SelectAndCancel ==
    [][ /\ last'.ev = "select" =>
            /\ selectedUser' # null
            /\ selectedUser'[1] \in rows
            /\ selectedUser'[1].id = last'.id
        /\ last'.ev = "cancel" =>
            /\ selectedUser # null
            /\ selectedUser' = null
        /\ last'.ev \in {"select", "cancel"} =>
            /\ inflight' = inflight /\ nreq' = nreq
            /\ users' = users /\ loading' = loading /\ error' = error
      ]_vars

C14_Witness ==
    /\ last.ev = "select"
    /\ last.id = 2
    /\ Len(users) = 2
    /\ selectedUser = <<users[2]>>
    /\ error # null
    /\ inflight # {}

\* C15: a rendering fault below the application root is caught by the
\* ErrorBoundary: the fallback is shown, never a blank page, and it stays,
\* with no update from the faulted subtree, until the boundary is reset.
C15_FaultShowsFallback ==
    [][ /\ last'.ev = "fault" => shown' = "fallback"
        /\ shown # "blank" /\ shown' # "blank"
        /\ shown = "fallback" => last'.ev = "reset"
      ]_vars

\* the positions of the IPv4 addresses in a list
IPv4At(addresses) ==
    { k \in 1..Len(addresses) : addresses[k].AddressFamily = "InterNetwork" }

\* C16: GetServerIp does not throw and returns a ServerIpDto whose Ip is not
\* empty: the first IPv4 address of the host's list, in list order, and
\* "127.0.0.1" when the list has none or a lookup throws.
C16_ServerIpIsFirstIPv4OrLoopback ==
    ipDto # null =>
        /\ ~ipDto[1].threw
        /\ ipDto[1].Ip # ""
        /\ IF host.nameThrows \/ host.entryThrows \/ IPv4At(host.addressList) = {}
           THEN ipDto[1].Ip = "127.0.0.1"
           ELSE \E k \in IPv4At(host.addressList) :
                    /\ \A j \in IPv4At(host.addressList) : k <= j
                    /\ ipDto[1].Ip = IPAddressToString(host.addressList[k])

C16_Witness ==
    /\ ~host.nameThrows /\ ~host.entryThrows
    /\ Len(host.addressList) = 3
    /\ host.addressList[1].AddressFamily = "InterNetworkV6"
    /\ host.addressList[2] = IPAddress("InterNetwork", <<192, 168, 0, 2>>)
    /\ host.addressList[3] = IPAddress("InterNetwork", <<10, 0, 0, 1>>)
    /\ ipDto = <<ServerIpDto("192.168.0.2")>>

\* the elements of a sequence
Range(seq) == { seq[k] : k \in 1..Len(seq) }

\* the create request of the client that the step being taken answers
Answered == { r \in holder : r.client = reply'.client }

\* C17: a create with valid fields returns a user whose id is above every id
\* an earlier create returned, deleted since or not, and whose name and email
\* are the trimmed inputs; that user is stored, and after any step no two
\* stored users share an id.
C17_CreateAssignsFreshId ==
    [][ /\ reply'.op = "create" /\ reply'.kind = "ok" =>
            /\ \A i \in Range(issued) : i < reply'.id
            /\ \E r \in Answered :
                reply'.users = <<User(reply'.id, trim(r.name), trim(r.email))>>
            /\ reply'.users[1] \in Range(store')
        /\ \A j \in 1..Len(store') : \A k \in 1..Len(store') :
                j # k => store'[j].id # store'[k].id
      ]_vars

C17_Witness ==
    /\ reply = Reply("create", "ok", 1, 2, {}, <<User(2, <<"a">>, AdaEmail)>>)
    /\ issued = <<1, 2>>
    /\ store = <<User(2, <<"a">>, AdaEmail)>>

\* C18: when create requests are handled at the same time, each created user
\* gets an id that no earlier create returned and no stored user has, and it
\* is added to the collection without any stored user being lost.
C18_ConcurrentCreatesAreAtomic ==
    [][ reply'.op = "create" /\ reply'.kind = "ok" =>
            /\ reply'.id \notin Range(issued)
            /\ reply'.id \notin Ids(store)
            /\ issued' = Append(issued, reply'.id)
            /\ store' = Append(store, reply'.users[1])
      ]_vars

\* client 1 got id 2 while the valid request of client 2 was waiting
C18_Witness ==
    /\ reply.op = "create" /\ reply.kind = "ok" /\ reply.client = 1 /\ reply.id = 2
    /\ \E r \in holder :
        r.client = 2 /\ r.phase = "arrived" /\ invalidFields(r.name, r.email) = {}
    /\ Ids(store) = {1, 2}
    /\ Len(store) = 2

\* the fields of a create request that are empty or malformed
Offending(r) ==
    { f \in {"name"} : Blank(r.name) }
    \cup { f \in {"email"} : Blank(r.email) \/ ~isValidEmail(trim(r.email)) }

\* C19: a create whose name is empty, whose email is empty or whose email is
\* malformed is answered with a ValidationError that names exactly the
\* offending fields; nothing is stored and the collection, the next id and
\* the ids issued stay as they were.
C19_InvalidCreateIsRefused ==
    [][ \A r \in Answered :
            reply'.op = "create" /\ r.phase = "arrived" /\ Offending(r) # {} =>
                /\ reply'.kind = "ValidationError"
                /\ reply'.fields = Offending(r)
                /\ reply'.users = <<>>
                /\ store' = store /\ nextId' = nextId /\ issued' = issued
                /\ \A q \in holder' : q.client # r.client
      ]_vars

C19_Witness ==
    /\ reply = Reply("create", "ValidationError", 2, 0, {"name", "email"}, <<>>)
    /\ store = <<User(1, <<"a">>, AdaEmail)>>
    /\ nextId = 2

\* C20: delete(id) of a stored id succeeds and removes that record and no
\* other; delete(id) of an id that is not stored, as after a first delete,
\* fails with NotFound and changes nothing.
C20_DeleteRemovesOnce ==
    [][ reply'.op = "delete" =>
            IF reply'.id \in Ids(store)
            THEN /\ reply'.kind = "ok"
                 /\ Len(store') = Len(store) - 1
                 /\ Range(store') = { u \in Range(store) : u.id # reply'.id }
            ELSE /\ reply'.kind = "NotFound"
                 /\ UNCHANGED <<store, nextId, issued, holder>>
      ]_vars

\* the second delete of user 1, with user 2 still stored
C20_Witness ==
    /\ reply = Reply("delete", "NotFound", 0, 1, {}, <<>>)
    /\ 1 \in Range(issued)
    /\ store = <<User(2, <<"a">>, AdaEmail)>>

\* C21: update of an id that is not stored fails with NotFound and leaves the
\* collection as it was; update of a stored id with valid new values keeps
\* the id and leaves exactly one record with that id, holding the new values,
\* with every other record unchanged (with invalid values it is refused and
\* changes nothing); list() returns the collection as it is.
C21_UpdateReplacesInPlace ==
    [][ /\ reply'.op = "update" /\ reply'.id \notin Ids(store) =>
            /\ reply'.kind = "NotFound"
            /\ UNCHANGED <<store, nextId, issued, holder>>
        /\ reply'.op = "update" /\ reply'.id \in Ids(store) =>
            /\ reply'.kind \in {"ok", "ValidationError"}
            /\ reply'.kind = "ValidationError" => store' = store
            /\ reply'.kind = "ok" =>
                /\ \E d \in UpdateInputs :
                    reply'.users = <<User(reply'.id, d.name, d.email)>>
                /\ Len(store') = Len(store)
                /\ Cardinality({ k \in 1..Len(store') : store'[k].id = reply'.id }) = 1
                /\ \A k \in 1..Len(store) :
                    store'[k] = IF store[k].id = reply'.id THEN reply'.users[1]
                                ELSE store[k]
        /\ reply'.op = "list" => reply'.kind = "ok" /\ reply'.users = store /\ store' = store
      ]_vars

\* list() after update(1, "b", ..) with user 2 stored as well
C21_Witness ==
    reply = Reply("list", "ok", 0, 0, {},
                  << User(1, <<"b">>, AdaEmail), User(2, <<"a">>, AdaEmail) >>)

\* whether the submit being taken called onSubmit: it issued a request
Accepted == last'.ev = "submit" /\ last'.op = "createUser"

\* the email shape, spelt out: no whitespace, one "@" with text before it,
\* and after it a "." with text on both sides
Shape(s) ==
    /\ \A k \in 1..Len(s) : s[k] \notin Whitespace
    /\ Cardinality({ k \in 1..Len(s) : s[k] = "@" }) = 1
    /\ \E i \in 2..Len(s) :
        s[i] = "@" /\ \E j \in (i + 2)..(Len(s) - 1) : s[j] = "."

\* t is s without its leading and trailing whitespace
IsTrimOf(t, s) ==
    /\ t = <<>> \/ (t[1] \notin Whitespace /\ t[Len(t)] \notin Whitespace)
    /\ \E i \in 0..(Len(s) - Len(t)) :
        /\ SubSeq(s, i + 1, i + Len(t)) = t
        /\ \A k \in (1..i) \cup ((i + Len(t) + 1)..Len(s)) : s[k] \in Whitespace

\* s without its leading and trailing whitespace
Stripped(s) ==
    CHOOSE t \in { SubSeq(s, a, b) : a \in 1..(Len(s) + 1), b \in 0..Len(s) } :
        IsTrimOf(t, s)

\* C22: the form accepts a submission exactly when the name is not empty
\* after trimming and the email, after trimming, is not empty and has the
\* email shape; an email that is valid once trimmed is accepted.
C22_AcceptsExactlyTrimmedValid ==
    [][ last'.ev = "submit" =>
            (Accepted <=>
                /\ Stripped(name) # <<>>
                /\ Stripped(email) # <<>>
                /\ Shape(Stripped(email)))
      ]_vars

\* C23: every DTO the form passes to onSubmit, which is the body of the
\* create request, has the trimmed name and the trimmed email of the fields;
\* its name is not empty and its email is not empty and has the email shape.
C23_SubmittedDtoIsTrimmedAndValid ==
    [][ Accepted =>
            \E r \in inflight' :
                /\ r.rid = last'.rid /\ r.op = "createUser"
                /\ IsTrimOf(r.dto.name, name)
                /\ IsTrimOf(r.dto.email, email)
                /\ r.dto.name # <<>>
                /\ r.dto.email # <<>>
                /\ Shape(r.dto.email)
      ]_vars

C23_Witness ==
    /\ last.ev = "submit"
    /\ \E r \in inflight :
        /\ r.rid = last.rid
        /\ r.dto = [name |-> <<"a">>, email |-> AdaEmail]
    /\ name = <<>> /\ email = <<>>

\* C24: isValidEmail(s) is true exactly when s has no whitespace, exactly one
\* "@" with a character before it, and after the "@" a "." with a character
\* before it and one after it; isNotEmpty(s) is true exactly when s has a
\* character that is not whitespace; a second call with the same string
\* returns what the first returned.
C24_ValidatorsMatchTheirContract ==
    [][ /\ verdict' # null =>
            /\ verdict'[1].isValidEmail = Shape(input)
            /\ verdict'[1].isNotEmpty = (\E k \in 1..Len(input) : input[k] \notin Whitespace)
        /\ verdict # null /\ verdict' # null =>
            /\ verdict'[1].isValidEmail = verdict[1].isValidEmail
            /\ verdict'[1].isNotEmpty = verdict[1].isNotEmpty
      ]_vars

\* a string without "@" is rejected, at the second call as at the first
C24_Witness ==
    /\ input = <<"a", ".", "a", "a", "a", "a">>
    /\ verdict = << [isValidEmail |-> FALSE, isNotEmpty |-> TRUE, call |-> 2] >>

\* C25: whenever the page is mounted, none of its requests is in flight and
\* every request since the mount was answered with success, the ids in
\* `users` are the ids of the users the server holds.
C25_ViewAgreesWithServer ==
    /\ mounted
    /\ inflight = {}
    /\ \A w \in wire : ok(w.fetched)
    => Ids(users) = Ids(store)

\* C26: in every reachable state, a present selectedUser has the id of a
\* record of `users`, whatever the interleaving of selection with the
\* responses of load, create and delete.
C26_SelectedIsListed ==
    selectedUser # null => selectedUser[1].id \in Ids(users)

\* C27: no two records of `users` have the same id, in every interleaving,
\* when the server gives every create an id of its own and lists no id twice.
C27_NoDuplicateIds ==
    \A i, j \in 1..Len(users) : users[i].id = users[j].id => i = j

\* a create response has been appended to a list that already had a record
C27_Witness ==
    /\ last.ev = "createSettled" /\ last.res.kind = "ok"
    /\ Len(users) >= 2

\* C28: right after a row is selected the form's name and email are the
\* selected user's name and email, and right after cancel they are empty.
C28_FormFollowsSelection ==
    /\ last.ev = "select" =>
          /\ name = selectedUser[1].name
          /\ email = selectedUser[1].email
    /\ last.ev = "cancel" => name = <<>> /\ email = <<>>

\* C29: a valid submission calls onSubmit exactly once and in the same step
\* empties name and email and clears the field errors, while the request it
\* started is still in flight; a failure of that request later leaves the
\* fields as they are, so the values that were entered are not brought back.
C29_ResetsBeforeTheResponse ==
    [][ /\ Accepted =>
            /\ nreq' = nreq + 1
            /\ \E r \in inflight' :
                /\ r.rid = nreq' /\ r.op = "createUser"
                /\ r.dto = [name |-> trim(name), email |-> trim(email)]
                /\ inflight' = inflight \cup {r}
                /\ r \notin inflight
            /\ name' = <<>> /\ email' = <<>> /\ errors' = NoErrors
        /\ last'.ev = "createSettled" /\ last'.res.kind # "ok" =>
            /\ UNCHANGED <<name, email, errors>>
            /\ error' # null
      ]_vars

\* a submitted create has failed and the form is empty
C29_Witness ==
    /\ last.ev = "createSettled" /\ last.res.kind # "ok"
    /\ name = <<>> /\ email = <<>> /\ errors = NoErrors

\* the ids of the getUsers calls among the calls in flight
Loads(calls) == { r.rid : r \in { q \in calls : q.op = "getUsers" } }

\* C30: the view calls getUsers once per mount, in its mount effect and
\* nowhere else: no step of a create, a delete, a selection, a cancel or a
\* dismissal starts another one; and once the initial load is over, `users`
\* changes only in the steps that handle a create or a delete response.
C30_OneLoadPerMount ==
    [][ /\ Loads(inflight') \subseteq Loads(inflight) \/ last'.ev = "mount"
        /\ last'.ev = "mount" =>
            /\ ~mounted /\ mounted'
            /\ Loads(inflight) = {}
            /\ Cardinality(Loads(inflight')) = 1
        /\ mounted => mounted'
        /\ mounted /\ Loads(inflight) = {} /\ users' # users =>
            last'.ev \in {"createSettled", "deleteSettled"}
      ]_vars

\* after the load, a create and a delete have been answered and no second
\* getUsers is in flight
C30_Witness ==
    /\ mounted /\ Loads(inflight) = {}
    /\ nreq = MaxRequests
    /\ last.ev = "deleteSettled" /\ last.res.kind = "ok"

====
